---- MODULE Spec2Model ----
(***************************************************************************)
(* Model of youtube_summarizer.py: the orchestrator main() with its input  *)
(* resolution, get_video_transcript, process_transcript and                *)
(* summarize_with_gpt4.                                                    *)
(*                                                                         *)
(* Python values are tagged records: None is [t |-> "None"], a str is      *)
(* [t |-> "str", s |-> <<characters>>], an int is [t |-> "int", n |-> n],  *)
(* a list is [t |-> "list", items |-> <<...>>] and a dict is               *)
(* [t |-> "dict", keys |-> {...}, ...] with one field per key of interest. *)
(***************************************************************************)
EXTENDS Integers, Sequences, FiniteSets, TLC

VARIABLES
    pc,                 \* position of the running code
    args,               \* argparse namespace: input name -> None or str
    env,                \* os.environ: input name -> None or str
    video_id,           \* main's local video_id
    searchapi_key,      \* main's local searchapi_key
    openai_key,         \* main's local openai_key
    prompts,            \* the input() prompts issued, in order
    out,                \* stdout: the lines printed, in order
    http,               \* what requests.get met (the outcome of the HTTP call)
    fetch_result,       \* how get_video_transcript ended: a return or a raise
    transcript_data,    \* main's transcript_data / process_transcript's argument
    segment_idx,        \* process_transcript: position of the for loop
    pt_full_transcript, \* process_transcript's local full_transcript
    pt_result,          \* how process_transcript ended: a return or a raise
    full_transcript,    \* main's local full_transcript
    llm,                \* what the OpenAI client met (the outcome of the call)
    sum_calls,          \* number of invocations of summarize_with_gpt4
    sum_result,         \* how summarize_with_gpt4 ended: a return or a raise
    summary,            \* main's local summary
    exc,                \* the exception that ended main, or "none"
    calls               \* assembler harness: the outcomes of the calls made so far

vars == <<pc, args, env, video_id, searchapi_key, openai_key, prompts, out, http,
          fetch_result, transcript_data, segment_idx, pt_full_transcript, pt_result,
          full_transcript, llm, sum_calls, sum_result, summary, exc, calls>>

-----------------------------------------------------------------------------
(* Bounds *)

MaxSegments == 2       \* longest segment list handed to the assembler harness
MaxTextLen == 2        \* longest segment text handed to the assembler harness
MaxCalls == 2          \* calls the assembler harness makes on one object
MainSegments == 2      \* longest segment list in a response body met by main

-----------------------------------------------------------------------------
(* Python values *)

None == [t |-> "None"]
Str(s) == [t |-> "str", s |-> s]
PyInt(n) == [t |-> "int", n |-> n]
List(items) == [t |-> "list", items |-> items]
EmptyDict == [t |-> "dict", keys |-> {}]
OtherDict == [t |-> "dict", keys |-> {"other"}]
TranscriptsDict(v) == [t |-> "dict", keys |-> {"transcripts"}, transcripts |-> v]
Segment(text) == [t |-> "dict", keys |-> {"text"}, text |-> text]
SegmentNoText == [t |-> "dict", keys |-> {"start"}]

Return(v) == [how |-> "return", value |-> v]
Raise(e) == [how |-> "raise", error |-> e]
NotCalled == [how |-> "not called"]

\* bool(v): Python truthiness
Truthy(v) ==
    CASE v.t = "None" -> FALSE
      [] v.t = "str"  -> Len(v.s) > 0
      [] v.t = "int"  -> v.n # 0
      [] v.t = "list" -> Len(v.items) > 0
      [] v.t = "dict" -> v.keys # {}

\* a or b
PyOr(a, b) == IF Truthy(a) THEN a ELSE b

Chars == {"a", " "}
Whitespace == {" "}

RECURSIVE SeqsUpTo(_, _)
SeqsUpTo(S, n) ==
    IF n = 0 THEN {<<>>}
    ELSE LET shorter == SeqsUpTo(S, n - 1)
         IN  shorter \cup {Append(s, x) : s \in {q \in shorter : Len(q) = n - 1}, x \in S}

\* str.strip(): leading and trailing whitespace removed
RECURSIVE LStrip(_)
LStrip(s) == IF s # <<>> /\ Head(s) \in Whitespace THEN LStrip(Tail(s)) ELSE s

RECURSIVE RStrip(_)
RStrip(s) ==
    IF s # <<>> /\ s[Len(s)] \in Whitespace THEN RStrip(SubSeq(s, 1, Len(s) - 1)) ELSE s

Strip(s) == RStrip(LStrip(s))

\* the literal "No transcript available." (line 31)
NoTranscriptAvailable ==
    Str(<<"N","o"," ","t","r","a","n","s","c","r","i","p","t"," ",
          "a","v","a","i","l","a","b","l","e",".">>)

\* the literal "Failed to generate summary." (line 57)
FailedToGenerateSummary ==
    Str(<<"F","a","i","l","e","d"," ","t","o"," ","g","e","n","e","r","a","t","e"," ",
          "s","u","m","m","a","r","y",".">>)

-----------------------------------------------------------------------------
(* Inputs of a run *)

Inputs == {"video_id", "searchapi_key", "openai_key"}

\* what argparse can hold for one flag: flag absent, --flag "" or --flag c
CliValues == {None, Str(<<>>), Str(<<"c">>)}

\* what os.environ.get can return: variable unset, set to "" or set to e
EnvValues == {None, Str(<<>>), Str(<<"e">>)}

\* what input() can return
PromptAnswers == {Str(<<>>), Str(<<"p">>)}

\* segment texts of at most n characters
Texts(n) == {Str(s) : s \in SeqsUpTo(Chars, n)}

\* segment texts in the response bodies met by main
MainTexts == {Str(<<>>), Str(<<"a">>), Str(<<" ">>)}

\* segments: with a text of T, or without the text field
Segments(T) == {Segment(t) : t \in T} \cup {SegmentNoText}
SegmentLists(m, T) == {List(q) : q \in SeqsUpTo(Segments(T), m)}

\* values response.json() can return (None is the JSON body null)
Responses(m, T) ==
    {None, PyInt(0), PyInt(1), List(<<>>), List(<<Str(<<"a">>)>>),
     EmptyDict, OtherDict, TranscriptsDict(None)}
        \cup {TranscriptsDict(l) : l \in SegmentLists(m, T)}

NotJsonBody == [json |-> FALSE]
JsonBody(v) == [json |-> TRUE, value |-> v]

ErrorStatuses == {404, 500}
NonErrorStatuses == {200, 304}

\* outcomes of requests.get(url, params=params) followed by the body's decoding;
\* decode_is_request_exception says whether the installed requests raises its
\* JSONDecodeError as a RequestException (2.27 and later) or as a plain ValueError
HttpOutcomes ==
    {[kind |-> "ConnectionError"], [kind |-> "Timeout"]}
        \cup {[kind |-> "response", status |-> st, body |-> NotJsonBody,
               decode_is_request_exception |-> d] :
                  st \in ErrorStatuses \cup NonErrorStatuses, d \in BOOLEAN}
        \cup {[kind |-> "response", status |-> 200, body |-> JsonBody(v),
               decode_is_request_exception |-> TRUE] :
                  v \in Responses(MainSegments, MainTexts)}
        \cup {[kind |-> "response", status |-> st, body |-> JsonBody(v),
               decode_is_request_exception |-> TRUE] :
                  st \in {304, 404}, v \in {EmptyDict, OtherDict}}

\* outcomes of building the OpenAI client and of chat.completions.create
LlmOutcomes ==
    {[kind |-> "client_error"], [kind |-> "api_error"], [kind |-> "no_choices"],
     [kind |-> "completion", content |-> Str(<<"a">>)]}

Line(text, arg) == [text |-> text, arg |-> arg]

\* an exception object, as formatted into a printed line
Exception(name) == [t |-> "exception", name |-> name]

\* the text of line 95
FailureLineText == "Failed to retrieve transcript. Please check the video ID and API key."

-----------------------------------------------------------------------------
(* get_video_transcript *)

\* Response.raise_for_status(): raises HTTPError for 4xx and 5xx
RaisesForStatus(status) == 400 <= status /\ status < 600

\* the RequestException, if any, raised inside the try block (lines 19-21)
RequestException(h) ==
    CASE h.kind = "ConnectionError" -> "ConnectionError"
      [] h.kind = "Timeout" -> "Timeout"
      [] h.kind = "response" /\ RaisesForStatus(h.status) -> "HTTPError"
      [] h.kind = "response" /\ ~RaisesForStatus(h.status) /\ ~h.body.json
            /\ h.decode_is_request_exception -> "JSONDecodeError"
      [] OTHER -> "none"

\* get_video_transcript without its except clause: the error propagates
GetVideoTranscript_NoExcept(h) ==
    IF RequestException(h) # "none"
    THEN [result |-> Raise(RequestException(h)), printed |-> <<>>]
    ELSE IF h.body.json
    THEN [result |-> Return(h.body.value), printed |-> <<>>]
    ELSE [result |-> Raise("ValueError"), printed |-> <<>>]

\* what get_video_transcript does on outcome h: how it ends and what it prints
GetVideoTranscript(h) ==
    IF RequestException(h) # "none"
    THEN [result |-> Return(None),
          printed |-> <<Line("Error fetching transcript: {e}", Exception(RequestException(h)))>>]
    ELSE IF h.body.json
    THEN [result |-> Return(h.body.value), printed |-> <<>>]
    ELSE [result |-> Raise("ValueError"), printed |-> <<>>]

-----------------------------------------------------------------------------
(* summarize_with_gpt4 *)

\* what summarize_with_gpt4 does on outcome o: how it ends and what it prints
SummarizeWithGpt4(o) ==
    CASE o.kind = "client_error" ->
            [result |-> Raise("OpenAIError"), printed |-> <<>>]
      [] o.kind = "api_error" ->
            [result |-> Return(FailedToGenerateSummary),
             printed |-> <<Line("Error generating summary: {e}", Exception(o.kind))>>]
      [] o.kind = "no_choices" ->
            [result |-> Return(FailedToGenerateSummary),
             printed |-> <<Line("Error generating summary: {e}", Exception(o.kind))>>]
      [] o.kind = "completion" ->
            [result |-> Return(o.content), printed |-> <<>>]

-----------------------------------------------------------------------------
(* main: input resolution (lines 59-79) *)

\* the operands swapped: os.environ.get(X) or args.x
FromArgsOrEnv_EnvFirst(i) == PyOr(env[i], args[i])

\* args.x or os.environ.get(X) (lines 68-70)
FromArgsOrEnv(i) == PyOr(args[i], env[i])

MainLocalsUnset ==
    /\ http = NotCalled
    /\ fetch_result = NotCalled
    /\ segment_idx = 0
    /\ pt_full_transcript = None
    /\ pt_result = NotCalled
    /\ full_transcript = None
    /\ llm = NotCalled
    /\ sum_calls = 0
    /\ sum_result = NotCalled
    /\ summary = None
    /\ exc = "none"
    /\ calls = <<>>

Init ==
    /\ pc = "main"
    /\ args \in [Inputs -> CliValues]
    /\ env \in [Inputs -> EnvValues]
    /\ video_id = None
    /\ searchapi_key = None
    /\ openai_key = None
    /\ prompts = <<>>
    /\ out = <<>>
    /\ transcript_data = None
    /\ MainLocalsUnset

pipeline_vars == <<http, fetch_result, transcript_data, segment_idx, pt_full_transcript,
                   pt_result, full_transcript, llm, sum_calls, sum_result, summary, exc,
                   calls>>

\* lines 65-70
ResolveInputs ==
    /\ pc = "main"
    /\ video_id' = FromArgsOrEnv("video_id")
    /\ searchapi_key' = FromArgsOrEnv("searchapi_key")
    /\ openai_key' = FromArgsOrEnv("openai_key")
    /\ pc' = "prompt_video_id"
    /\ UNCHANGED <<args, env, prompts, out, pipeline_vars>>

\* lines 72-73
PromptVideoId ==
    /\ pc = "prompt_video_id"
    /\ IF ~Truthy(video_id)
       THEN \E answer \in PromptAnswers :
                /\ video_id' = answer
                /\ prompts' = Append(prompts, "video_id")
       ELSE UNCHANGED <<video_id, prompts>>
    /\ pc' = "prompt_searchapi_key"
    /\ UNCHANGED <<args, env, searchapi_key, openai_key, out, pipeline_vars>>

\* lines 75-76
PromptSearchapiKey ==
    /\ pc = "prompt_searchapi_key"
    /\ IF ~Truthy(searchapi_key)
       THEN \E answer \in PromptAnswers :
                /\ searchapi_key' = answer
                /\ prompts' = Append(prompts, "searchapi_key")
       ELSE UNCHANGED <<searchapi_key, prompts>>
    /\ pc' = "prompt_openai_key"
    /\ UNCHANGED <<args, env, video_id, openai_key, out, pipeline_vars>>

\* lines 78-79
PromptOpenaiKey ==
    /\ pc = "prompt_openai_key"
    /\ IF ~Truthy(openai_key)
       THEN \E answer \in PromptAnswers :
                /\ openai_key' = answer
                /\ prompts' = Append(prompts, "openai_key")
       ELSE UNCHANGED <<openai_key, prompts>>
    /\ pc' = "fetch"
    /\ UNCHANGED <<args, env, video_id, searchapi_key, out, pipeline_vars>>

input_vars == <<args, env, video_id, searchapi_key, openai_key, prompts>>

-----------------------------------------------------------------------------
(* main: the pipeline (lines 81-95) *)

\* lines 81-82: the progress line and the call of get_video_transcript
Fetch ==
    /\ pc = "fetch"
    /\ \E h \in HttpOutcomes :
        LET r == GetVideoTranscript(h)
        IN  /\ http' = h
            /\ fetch_result' = r.result
            /\ out' = out \o <<Line("Fetching transcript for video ID: {video_id}...",
                                    video_id)>> \o r.printed
            /\ IF r.result.how = "return"
               THEN /\ transcript_data' = r.result.value
                    /\ pc' = "fetched"
                    /\ exc' = exc
               ELSE /\ transcript_data' = transcript_data
                    /\ pc' = "crashed"
                    /\ exc' = r.result.error
    /\ UNCHANGED <<input_vars, segment_idx, pt_full_transcript, pt_result,
                   full_transcript, llm, sum_calls, sum_result, summary, calls>>

\* the condition inverted: if not transcript_data
Branch_Inverted ==
    /\ pc = "fetched"
    /\ IF ~Truthy(transcript_data)
       THEN /\ out' = Append(out, Line("Transcript fetched successfully!", None))
            /\ pc' = "process_transcript"
       ELSE /\ out' = Append(out, Line(FailureLineText, None))
            /\ pc' = "done"
    /\ UNCHANGED <<input_vars, pipeline_vars>>

\* the condition as an identity test: if transcript_data is not None
Branch_IsNotNone ==
    /\ pc = "fetched"
    /\ IF transcript_data # None
       THEN /\ out' = Append(out, Line("Transcript fetched successfully!", None))
            /\ pc' = "process_transcript"
       ELSE /\ out' = Append(out, Line(FailureLineText, None))
            /\ pc' = "done"
    /\ UNCHANGED <<input_vars, pipeline_vars>>

\* the failure line printed without ending the run: the pipeline goes on
Branch_FallThrough ==
    /\ pc = "fetched"
    /\ IF Truthy(transcript_data)
       THEN out' = Append(out, Line("Transcript fetched successfully!", None))
       ELSE out' = Append(out, Line(FailureLineText, None))
    /\ pc' = "process_transcript"
    /\ UNCHANGED <<input_vars, pipeline_vars>>

\* lines 84-85 and 94-95: the branch on the fetched data
Branch ==
    /\ pc = "fetched"
    /\ IF Truthy(transcript_data)
       THEN /\ out' = Append(out, Line("Transcript fetched successfully!", None))
            /\ pc' = "process_transcript"
       ELSE /\ out' = Append(out, Line(FailureLineText, None))
            /\ pc' = "done"
    /\ UNCHANGED <<input_vars, pipeline_vars>>

-----------------------------------------------------------------------------
(* process_transcript (lines 26-37) *)

\* whether  'transcripts' in v  can be evaluated: an int has no __contains__
SupportsIn(v) == v.t \in {"str", "list", "dict"}

\* 'transcripts' in v, for the values v of Responses
HasTranscripts(v) ==
    CASE v.t = "dict" -> "transcripts" \in v.keys
      [] v.t = "list" -> FALSE
      [] v.t = "str" -> FALSE

\* the separator forgotten: full_transcript += segment['text']
Accumulate_NoSeparator(acc, segment) == Str(acc.s \o segment.text.s)

\* line 35: full_transcript += segment['text'] + " "
Accumulate(acc, segment) == Str(acc.s \o segment.text.s \o <<" ">>)

\* line 37: full_transcript.strip()
Stripped(acc) == Str(Strip(acc.s))

pt_frame == <<segment_idx, pt_full_transcript>>
main_rest == <<http, fetch_result, full_transcript, llm, sum_calls, sum_result,
               summary, out, exc, calls>>

\* the guard without its first operand: 'transcripts' not in transcript_data
Guard_NoFalsyCheck(d) ==
    IF ~SupportsIn(d) THEN "TypeError"
    ELSE IF ~HasTranscripts(d) THEN "return"
    ELSE "loop"

\* line 30: what the guard  not transcript_data or 'transcripts' not in transcript_data
\* leads to: the early return, a TypeError of the  in  test, or the loop
Guard(d) ==
    IF ~Truthy(d) THEN "return"
    ELSE IF ~SupportsIn(d) THEN "TypeError"
    ELSE IF ~HasTranscripts(d) THEN "return"
    ELSE "loop"

\* lines 30-33: the guard, its early return, and the start of the accumulation
PT_Guard ==
    /\ pc = "process_transcript"
    /\ CASE Guard(transcript_data) = "return" ->
                /\ pt_result' = Return(NoTranscriptAvailable)
                /\ pc' = "pt_exit"
                /\ UNCHANGED pt_frame
         [] Guard(transcript_data) = "TypeError" ->
                /\ pt_result' = Raise("TypeError")
                /\ pc' = "pt_exit"
                /\ UNCHANGED pt_frame
         [] Guard(transcript_data) = "loop" ->
                /\ pt_full_transcript' = Str(<<>>)
                /\ segment_idx' = 1
                /\ pc' = "pt_for"
                /\ UNCHANGED pt_result
    /\ UNCHANGED <<input_vars, transcript_data, main_rest>>

\* the loop consuming its input: segment = transcript_data['transcripts'].pop(0)
PT_Iterate_Consuming ==
    /\ pc = "pt_for"
    /\ LET segments == transcript_data.transcripts
       IN  IF segments.t # "list"
           THEN /\ pt_result' = Raise("TypeError")
                /\ pc' = "pt_exit"
                /\ UNCHANGED <<pt_frame, transcript_data>>
           ELSE /\ segments.items # <<>>
                /\ segment_idx' = segment_idx
                /\ transcript_data' = TranscriptsDict(List(Tail(segments.items)))
                /\ LET segment == Head(segments.items)
                   IN  IF "text" \in segment.keys
                       THEN /\ pt_full_transcript' = Accumulate(pt_full_transcript, segment)
                            /\ UNCHANGED <<pt_result, pc>>
                       ELSE /\ pt_result' = Raise("KeyError")
                            /\ pc' = "pt_exit"
                            /\ UNCHANGED pt_full_transcript
    /\ UNCHANGED <<input_vars, main_rest>>

\* a default for the missing field: segment.get('text', '')
PT_Iterate_DefaultText ==
    /\ pc = "pt_for"
    /\ LET segments == transcript_data.transcripts
       IN  IF segments.t # "list"
           THEN /\ pt_result' = Raise("TypeError")
                /\ pc' = "pt_exit"
                /\ UNCHANGED pt_frame
           ELSE /\ segment_idx <= Len(segments.items)
                /\ LET segment == segments.items[segment_idx]
                       text == IF "text" \in segment.keys THEN segment.text ELSE Str(<<>>)
                   IN  /\ pt_full_transcript' = Accumulate(pt_full_transcript, Segment(text))
                       /\ segment_idx' = segment_idx + 1
                       /\ UNCHANGED <<pt_result, pc>>
    /\ UNCHANGED <<input_vars, transcript_data, main_rest>>

\* lines 34-35: one turn of the for loop, or the error that ends it
PT_Iterate ==
    /\ pc = "pt_for"
    /\ LET segments == transcript_data.transcripts
       IN  IF segments.t # "list"
           THEN /\ pt_result' = Raise("TypeError")
                /\ pc' = "pt_exit"
                /\ UNCHANGED pt_frame
           ELSE /\ segment_idx <= Len(segments.items)
                /\ LET segment == segments.items[segment_idx]
                   IN  IF "text" \in segment.keys
                       THEN /\ pt_full_transcript' = Accumulate(pt_full_transcript, segment)
                            /\ segment_idx' = segment_idx + 1
                            /\ UNCHANGED <<pt_result, pc>>
                       ELSE /\ pt_result' = Raise("KeyError")
                            /\ pc' = "pt_exit"
                            /\ UNCHANGED pt_frame
    /\ UNCHANGED <<input_vars, transcript_data, main_rest>>

\* line 37: the loop is over, return the stripped text
PT_Return ==
    /\ pc = "pt_for"
    /\ transcript_data.transcripts.t = "list"
    /\ segment_idx > Len(transcript_data.transcripts.items)
    /\ pt_result' = Return(Stripped(pt_full_transcript))
    /\ pc' = "pt_exit"
    /\ UNCHANGED <<input_vars, transcript_data, pt_frame, main_rest>>

-----------------------------------------------------------------------------
(* main: after the assembly (lines 86-93) *)

\* lines 86 and 88: bind the result, print the progress line; an error raised
\* by process_transcript propagates out of main
AfterAssemble ==
    /\ pc = "pt_exit"
    /\ IF pt_result.how = "return"
       THEN /\ full_transcript' = pt_result.value
            /\ out' = Append(out, Line("Generating summary...", None))
            /\ pc' = "summarize"
            /\ exc' = exc
       ELSE /\ exc' = pt_result.error
            /\ pc' = "crashed"
            /\ UNCHANGED <<full_transcript, out>>
    /\ UNCHANGED <<input_vars, http, fetch_result, transcript_data, pt_frame, pt_result,
                   llm, sum_calls, sum_result, summary, calls>>

\* line 89: the call of summarize_with_gpt4
Summarize ==
    /\ pc = "summarize"
    /\ sum_calls' = sum_calls + 1
    /\ \E o \in LlmOutcomes :
        LET r == SummarizeWithGpt4(o)
        IN  /\ llm' = o
            /\ sum_result' = r.result
            /\ out' = out \o r.printed
            /\ IF r.result.how = "return"
               THEN /\ summary' = r.result.value
                    /\ pc' = "print_summary"
                    /\ exc' = exc
               ELSE /\ summary' = summary
                    /\ pc' = "crashed"
                    /\ exc' = r.result.error
    /\ UNCHANGED <<input_vars, http, fetch_result, transcript_data, pt_frame, pt_result,
                   full_transcript, calls>>

\* lines 91-93: the delimited summary block
PrintSummary ==
    /\ pc = "print_summary"
    /\ out' = out \o <<Line("--- VIDEO SUMMARY ---", None),
                       Line("{summary}", summary),
                       Line("--------------------", None)>>
    /\ pc' = "done"
    /\ UNCHANGED <<input_vars, http, fetch_result, transcript_data, pt_frame, pt_result,
                   full_transcript, llm, sum_calls, sum_result, summary, exc, calls>>

Next ==
    \/ ResolveInputs
    \/ PromptVideoId
    \/ PromptSearchapiKey
    \/ PromptOpenaiKey
    \/ Fetch
    \/ Branch
    \/ PT_Guard
    \/ PT_Iterate
    \/ PT_Return
    \/ AfterAssemble
    \/ Summarize
    \/ PrintSummary

Spec == Init /\ [][Next]_vars

-----------------------------------------------------------------------------
(* process_transcript called repeatedly on one response object *)

InitAssembler ==
    /\ pc = "idle"
    /\ args = [i \in Inputs |-> None]
    /\ env = [i \in Inputs |-> None]
    /\ video_id = None
    /\ searchapi_key = None
    /\ openai_key = None
    /\ prompts = <<>>
    /\ out = <<>>
    /\ MainLocalsUnset
    /\ transcript_data \in Responses(MaxSegments, Texts(MaxTextLen))

\* line 26: a caller enters process_transcript with the object it holds
Call ==
    /\ pc = "idle"
    /\ Len(calls) < MaxCalls
    /\ pc' = "process_transcript"
    /\ UNCHANGED <<input_vars, transcript_data, pt_frame, pt_result, main_rest>>

\* the caller receives the call's outcome
Receive ==
    /\ pc = "pt_exit"
    /\ calls' = Append(calls, pt_result)
    /\ pc' = "idle"
    /\ UNCHANGED <<input_vars, transcript_data, pt_frame, pt_result, http, fetch_result,
                   full_transcript, llm, sum_calls, sum_result, summary, out, exc>>

NextAssembler ==
    \/ Call
    \/ PT_Guard
    \/ PT_Iterate
    \/ PT_Return
    \/ Receive

SpecAssembler == InitAssembler /\ [][NextAssembler]_vars

-----------------------------------------------------------------------------
(* Vocabulary of the properties *)

Printed(text) == \E i \in DOMAIN out : out[i].text = text

FailureLinePrinted == Printed(FailureLineText)

\* the delimited block of lines 91-93, holding the text v
SummaryBlockWith(v) ==
    \E i \in DOMAIN out :
        /\ i + 2 <= Len(out)
        /\ out[i].text = "--- VIDEO SUMMARY ---"
        /\ out[i + 1].text = "{summary}"
        /\ out[i + 1].arg = v
        /\ out[i + 2].text = "--------------------"

SummaryBlockPrinted ==
    \/ Printed("--- VIDEO SUMMARY ---")
    \/ Printed("{summary}")
    \/ Printed("--------------------")

Terminated == pc \in {"done", "crashed"}

\* get_video_transcript reported an error and returned None
FetchFailed ==
    /\ fetch_result = Return(None)
    /\ Printed("Error fetching transcript: {e}")

IsSuccessStatus(status) == 200 <= status /\ status < 300

\* the HTTP call ended in a network error, a timeout or a status outside 2xx
NetworkOrStatusFailure(h) ==
    \/ h.kind \in {"ConnectionError", "Timeout"}
    \/ h.kind = "response" /\ ~IsSuccessStatus(h.status)

\* the HTTP call ended in a network error, a timeout or a 4xx/5xx status
NetworkOrErrorStatus(h) ==
    \/ h.kind \in {"ConnectionError", "Timeout"}
    \/ h.kind = "response" /\ h.status >= 400 /\ h.status < 600

\* the fetch succeeded: success status and a body that parsed as JSON
FetchSucceeded == http.kind = "response" /\ IsSuccessStatus(http.status) /\ http.body.json

\* v is a dict whose 'transcripts' is a list
HasSegmentList(v) ==
    /\ v.t = "dict"
    /\ "transcripts" \in v.keys
    /\ v.transcripts.t = "list"

\* v is a dict whose 'transcripts' is a list of segments that all have a text
WellFormed(v) ==
    /\ HasSegmentList(v)
    /\ \A i \in DOMAIN v.transcripts.items : "text" \in v.transcripts.items[i].keys

\* v is a dict whose 'transcripts' is a list with a segment that has no text
HasTextlessSegment(v) ==
    /\ HasSegmentList(v)
    /\ \E i \in DOMAIN v.transcripts.items : "text" \notin v.transcripts.items[i].keys

\* " ".join(texts)
RECURSIVE JoinWithSpace(_)
JoinWithSpace(texts) ==
    IF texts = <<>> THEN <<>>
    ELSE IF Len(texts) = 1 THEN texts[1]
    ELSE texts[1] \o <<" ">> \o JoinWithSpace(Tail(texts))

SegmentTexts(v) == [i \in DOMAIN v.transcripts.items |-> v.transcripts.items[i].text.s]

Resolved(i) ==
    CASE i = "video_id" -> video_id
      [] i = "searchapi_key" -> searchapi_key
      [] i = "openai_key" -> openai_key

Prompted(i) == \E k \in DOMAIN prompts : prompts[k] = i

InputsResolved == pc \notin {"main", "prompt_video_id", "prompt_searchapi_key",
                             "prompt_openai_key", "idle"}

-----------------------------------------------------------------------------
(* C1 *)

\* C1: in every run of main in which get_video_transcript reports an error and
\* returns None, the summarizer is never invoked (no call, no client outcome, no
\* summary), the run can only stand at the branch or have ended normally, and once
\* ended it has printed the failure line and no summary block.
C1_FailedFetchNeverSummarizes ==
    FetchFailed =>
        /\ sum_calls = 0
        /\ llm = NotCalled
        /\ sum_result = NotCalled
        /\ pc \in {"fetched", "done"}
        /\ pc = "done" => FailureLinePrinted /\ ~SummaryBlockPrinted

C1_Witness ==
    /\ pc = "done"
    /\ FetchFailed
    /\ http.kind = "response"
    /\ http.status = 404
    /\ FailureLinePrinted

-----------------------------------------------------------------------------
(* C2 *)

\* C2 as stated: on a network error, a timeout or a non-success status
\* get_video_transcript reports the error and returns None without raising, and
\* on a success status it returns the parsed JSON body.
C2_AsStated ==
    http # NotCalled =>
        /\ NetworkOrStatusFailure(http) => FetchFailed
        /\ (http.kind = "response" /\ IsSuccessStatus(http.status)) =>
                /\ http.body.json
                /\ fetch_result = Return(http.body.value)

\* C2 amended: on a network error, a timeout or an error status (4xx, 5xx)
\* get_video_transcript reports the error and returns None without raising; on a
\* success status whose body parses as JSON it returns the parsed body and
\* reports nothing.
C2_ErrorsBecomeNone ==
    http # NotCalled =>
        /\ NetworkOrErrorStatus(http) => FetchFailed /\ exc = "none"
        /\ FetchSucceeded =>
                /\ fetch_result = Return(http.body.value)
                /\ ~Printed("Error fetching transcript: {e}")

C2_Witness ==
    /\ http # NotCalled
    /\ http.kind = "response"
    /\ http.status = 500
    /\ fetch_result = Return(None)
    /\ pc = "fetched"

-----------------------------------------------------------------------------
(* C3 *)

\* C3 as stated: whatever error occurs while summarize_with_gpt4 runs, building
\* its client included, it raises nothing and returns "Failed to generate
\* summary.", and main then prints that string inside the summary block.
C3_AsStated ==
    (llm # NotCalled /\ llm.kind \in {"client_error", "api_error", "no_choices"}) =>
        /\ sum_result = Return(FailedToGenerateSummary)
        /\ exc = "none"
        /\ pc \in {"print_summary", "done"}
        /\ pc = "done" => SummaryBlockWith(FailedToGenerateSummary)

-----------------------------------------------------------------------------
(* C4 *)

\* the parsed response lacks a usable segment list
MissingOrMalformed(v) == ~HasSegmentList(v)

\* C4 as stated: when the fetch succeeds and the parsed response is missing or
\* malformed in its segment-list field (an empty object or other empty value
\* included), the run goes on: the placeholder is assembled and the summarizer
\* is invoked on it; the failure line is printed only after a fetch error.
C4_AsStated ==
    /\ (Terminated /\ FetchSucceeded /\ MissingOrMalformed(http.body.value)) =>
            /\ full_transcript = NoTranscriptAvailable
            /\ sum_calls = 1
            /\ ~FailureLinePrinted
    /\ FailureLinePrinted => FetchFailed

\* the parsed response is a non-empty dict or list without 'transcripts'
NonEmptyWithoutField(v) ==
    /\ v.t \in {"dict", "list"}
    /\ Truthy(v)
    /\ ~HasTranscripts(v)

\* C4 amended: when get_video_transcript returns a non-empty object that does
\* not contain 'transcripts', the run goes on: the placeholder is assembled, no
\* failure line is printed and the summarizer is invoked once on the
\* placeholder.  The failure line is printed exactly when the run has passed the
\* branch with an empty (falsy) value: None after a fetch error, but also an
\* empty object, an empty list, 0 or null from a successful fetch.
C4_PlaceholderOnlyWhenNonEmpty ==
    /\ (fetch_result.how = "return" /\ NonEmptyWithoutField(fetch_result.value)) =>
            /\ ~FailureLinePrinted
            /\ exc \in {"none", "OpenAIError"}
            /\ pc \in {"pt_exit", "summarize", "print_summary", "done", "crashed"} =>
                    pt_result = Return(NoTranscriptAvailable)
            /\ pc \in {"summarize", "print_summary", "done", "crashed"} =>
                    full_transcript = NoTranscriptAvailable
            /\ Terminated => sum_calls = 1
    /\ FailureLinePrinted <=>
            (pc = "done" /\ fetch_result.how = "return" /\ ~Truthy(fetch_result.value))

C4_Witness ==
    /\ pc = "done"
    /\ FetchSucceeded
    /\ transcript_data = OtherDict
    /\ full_transcript = NoTranscriptAvailable
    /\ sum_calls = 1
    /\ SummaryBlockPrinted

-----------------------------------------------------------------------------
(* C5 *)

\* C5 as stated: for each input, a CLI value that is given is the resolved
\* value, also when the environment variable is set; otherwise the environment
\* variable's value is used; a prompt is issued only for an input left without
\* a value by both.
C5_AsStated ==
    InputsResolved =>
        \A i \in Inputs :
            /\ args[i] # None => Resolved(i) = args[i]
            /\ (args[i] = None /\ Truthy(env[i])) => Resolved(i) = env[i]
            /\ Prompted(i) => (~Truthy(args[i]) /\ ~Truthy(env[i]))

\* C5 amended: for each input, a non-empty CLI value is the resolved value, also
\* when the environment variable is set; otherwise a non-empty environment value
\* is the resolved value; a prompt is issued exactly for the inputs whose CLI
\* value and environment value are both absent or empty, once each and in the
\* order video id, transcript-service key, summarization-service key, and its
\* answer is then the resolved value.
C5_NonEmptyCliThenEnvThenPrompt ==
    InputsResolved =>
        /\ \A i \in Inputs :
            /\ Truthy(args[i]) => Resolved(i) = args[i]
            /\ (~Truthy(args[i]) /\ Truthy(env[i])) => Resolved(i) = env[i]
            /\ Prompted(i) <=> (~Truthy(args[i]) /\ ~Truthy(env[i]))
            /\ Prompted(i) => Resolved(i) \in PromptAnswers
        /\ \A k, l \in DOMAIN prompts :
            /\ k < l => prompts[k] # prompts[l]
            /\ (k < l /\ prompts[l] = "video_id") => FALSE
            /\ (k < l /\ prompts[k] = "openai_key") => FALSE

C5_Witness ==
    /\ pc = "fetch"
    /\ args["video_id"] = Str(<<"c">>)
    /\ env["video_id"] = Str(<<"e">>)
    /\ video_id = Str(<<"c">>)
    /\ args["searchapi_key"] = None
    /\ env["searchapi_key"] = Str(<<"e">>)
    /\ searchapi_key = Str(<<"e">>)
    /\ prompts = <<"openai_key">>
    /\ openai_key = Str(<<"p">>)

-----------------------------------------------------------------------------
(* C6 *)

\* C6: whenever process_transcript ends on a response whose 'transcripts' is a
\* list of segments that all have a text, it returns the texts in their order
\* joined with one space, with leading and trailing whitespace removed.
C6_JoinedAndTrimmed ==
    (pc = "pt_exit" /\ WellFormed(transcript_data)) =>
        pt_result = Return(Str(Strip(JoinWithSpace(SegmentTexts(transcript_data)))))

C6_Witness ==
    /\ pc = "pt_exit"
    /\ transcript_data =
            TranscriptsDict(List(<<Segment(Str(<<"a">>)), Segment(Str(<<"a", "a">>))>>))
    /\ pt_result = Return(Str(<<"a", " ", "a", "a">>))

-----------------------------------------------------------------------------
(* C7 *)

\* C7: whenever process_transcript ends on None or on a dict without
\* 'transcripts', it has returned "No transcript available." and raised nothing.
C7_PlaceholderWhenAbsent ==
    (/\ pc = "pt_exit"
     /\ \/ transcript_data = None
        \/ transcript_data.t = "dict" /\ "transcripts" \notin transcript_data.keys) =>
        pt_result = Return(NoTranscriptAvailable)

C7_Witness ==
    /\ pc = "pt_exit"
    /\ transcript_data = None
    /\ pt_result = Return(NoTranscriptAvailable)

-----------------------------------------------------------------------------
(* C8 *)

\* the progress lines and the summary block, in the order of lines 85-93, the
\* block ending the output
SummaryOutputInOrder ==
    \E i, j, k \in DOMAIN out :
        /\ i < j /\ j < k /\ k + 2 = Len(out)
        /\ out[i].text = "Transcript fetched successfully!"
        /\ out[j].text = "Generating summary..."
        /\ out[k].text = "--- VIDEO SUMMARY ---"
        /\ out[k + 1].text = "{summary}"
        /\ out[k + 1].arg = summary
        /\ out[k + 2].text = "--------------------"

FailureLineLast == out # <<>> /\ out[Len(out)].text = FailureLineText

ExceptionEscaped ==
    \/ fetch_result.how = "raise"
    \/ pt_result.how = "raise"
    \/ sum_result.how = "raise"

\* C8 as stated: every run ends normally, and has then printed exactly one of
\* the summary block (after the two progress lines, in order) and the failure
\* line.
C8_AsStated ==
    /\ pc # "crashed"
    /\ pc = "done" =>
            /\ SummaryBlockPrinted # FailureLinePrinted
            /\ SummaryBlockPrinted => SummaryOutputInOrder
    /\ ~Terminated => ENABLED Next

\* C8 amended: a run never prints both final outputs and prints neither before
\* it ends; a run in which no exception escapes (from the body's decoding, from
\* process_transcript or from the construction of the OpenAI client) ends
\* normally having printed exactly one of them, the summary block after the two
\* progress lines in order, or the failure line; a run in which one escapes ends
\* abnormally having printed neither; no run stops anywhere else.
C8_ExactlyOneUnlessRaised ==
    /\ ~(SummaryBlockPrinted /\ FailureLinePrinted)
    /\ (SummaryBlockPrinted \/ FailureLinePrinted) => pc = "done"
    /\ pc = "done" =>
            /\ ~ExceptionEscaped
            /\ exc = "none"
            /\ \/ SummaryOutputInOrder /\ ~FailureLinePrinted
               \/ FailureLineLast /\ ~SummaryBlockPrinted
    /\ pc = "crashed" =>
            /\ ExceptionEscaped
            /\ exc \in {"ValueError", "TypeError", "KeyError", "OpenAIError"}
    /\ ~ExceptionEscaped => pc # "crashed"
    /\ ~Terminated => ENABLED Next

C8_Witness ==
    /\ pc = "done"
    /\ SummaryOutputInOrder
    /\ summary = Str(<<"a">>)
    /\ full_transcript = Str(<<"a", " ", "a">>)
    /\ Len(out) = 6

-----------------------------------------------------------------------------
(* C9 *)

\* C9: no step of a call of process_transcript changes the response object, and
\* every call on the object ends as the first call on it did.
C9_Idempotent ==
    [][/\ transcript_data' = transcript_data
       /\ \A k \in DOMAIN calls' : calls'[k] = calls'[1]]_vars

C9_Witness ==
    /\ Len(calls) >= 2
    /\ calls[1] = Return(Str(<<"a", " ", "a">>))
    /\ calls[2] = calls[1]

-----------------------------------------------------------------------------
(* C10 *)

\* C10: when the response's segment list has a segment without the text field,
\* process_transcript never returns a string: it ends in a KeyError, and in main
\* that error ends the run before the summarizer is invoked and before any line
\* of the summary block is printed.
C10_MissingTextIsFatal ==
    HasTextlessSegment(transcript_data) =>
        /\ pt_result.how # "return"
        /\ pc \in {"pt_exit", "crashed"} => pt_result = Raise("KeyError")
        /\ pc = "crashed" => exc = "KeyError"
        /\ pc \notin {"summarize", "print_summary", "done"}
        /\ full_transcript = None
        /\ sum_calls = 0
        /\ llm = NotCalled
        /\ ~SummaryBlockPrinted
        /\ ~Printed("Generating summary...")

C10_Witness ==
    /\ pc = "crashed"
    /\ exc = "KeyError"
    /\ transcript_data = TranscriptsDict(List(<<Segment(Str(<<"a">>)), SegmentNoText>>))
    /\ pt_full_transcript = Str(<<"a", " ">>)
    /\ sum_calls = 0

====
